---- MODULE Spec2Model ----
(***************************************************************************)
(* A model of the Ox editor controller (src/src/editor.rs): the cursor and *)
(* viewport model, the undo/redo event log, the dirty-prompt gate and the  *)
(* prompt protocol.                                                        *)
(*                                                                         *)
(* Positions are 0-based as in the source; TLA+ sequences are 1-based, so  *)
(* the row at document index y is rows[y + 1].  A row is the sequence of   *)
(* its grapheme clusters; every grapheme of the model is one char.         *)
(*                                                                         *)
(* A Rust panic (index out of bounds, usize subtraction overflow with      *)
(* overflow checks on, slicing a string off a char boundary) stops the     *)
(* process: the handler's effects up to the panic stay in the state and    *)
(* `panicked` is set; no handler runs afterwards.                          *)
(***************************************************************************)
EXTENDS Integers, Sequences, FiniteSets, TLC

\* ------------------------------------------------------------------ bounds

\* How many content-changing handlers (an edit, an undo or a redo that pops
\* an event) one run invokes.
MaxOps == 3
\* The same bound in the behaviours of SpecFiles, SpecGate and SpecTyping.
MaxFileOps == 2
\* How many characters the prompt's buffer holds.
MaxPrompt == 1
\* How many rows and how many graphemes per row the document grows to.
MaxRows == 4
MaxCols == 8

\* config::TAB_WIDTH, the number of spaces a tab inserts.
TAB_WIDTH == 4

\* ------------------------------------------------------- characters and rows

\* The characters a key press can carry: a narrow one and a double-width one.
TypedChars == {"a", "W"}

\* UnicodeWidthChar::width / UnicodeWidthStr::width of one character.
Width(c) == IF c = "W" THEN 2 ELSE 1

\* The UTF-8 length of one character ("W" stands for a CJK character).
Bytes(c) == IF c = "W" THEN 3 ELSE 1

RECURSIVE SumWidth(_)
SumWidth(r) == IF r = <<>> THEN 0 ELSE Width(Head(r)) + SumWidth(Tail(r))

\* Row::length: the display width of the row.
RowLength(r) == SumWidth(r)

\* Row::chars: the grapheme clusters of the row.
Chars(r) == r

\* Row::get_jumps: the display width of each grapheme.
GetJumps(r) == [i \in 1..Len(r) |-> Width(r[i])]

RECURSIVE ExtChars(_)
\* Row::ext_chars: each grapheme repeated once per display cell.
ExtChars(r) ==
    IF r = <<>> THEN <<>>
    ELSE [i \in 1..Width(Head(r)) |-> Head(r)] \o ExtChars(Tail(r))

\* Row::boundaries: the column at which each grapheme starts.
Boundaries(r) == {RowLength(SubSeq(r, 1, i - 1)) : i \in 1..Len(r)}

\* Row::insert(ch, pos): graphemes.take(pos) + ch + graphemes.skip(pos).
RowInsert(r, ch, pos) ==
    LET p == IF pos > Len(r) THEN Len(r) ELSE pos
    IN SubSeq(r, 1, p) \o <<ch>> \o SubSeq(r, p + 1, Len(r))

\* Row::delete(pos): graphemes.take(pos) + graphemes.skip(pos + 1).
RowDelete(r, pos) ==
    IF pos >= Len(r) THEN r
    ELSE SubSeq(r, 1, pos) \o SubSeq(r, pos + 2, Len(r))

RECURSIVE SumBytes(_)
SumBytes(r) == IF r = <<>> THEN 0 ELSE Bytes(Head(r)) + SumBytes(Tail(r))

\* The byte offsets at which &string[..k] and &string[k..] may cut the row.
CharBoundaries(r) == {SumBytes(SubSeq(r, 1, i)) : i \in 0..Len(r)}

\* The number of characters in the first k bytes of the row (k a boundary).
CharsInBytes(r, k) == CHOOSE i \in 0..Len(r) : SumBytes(SubSeq(r, 1, i)) = k

\* The display width of the grapheme occupying cell i, 1 when there is none
\* (`jump = 1; if let Some(chr) = ext_chars().get(i) { jump = width(chr) }`).
Jump(r, i) ==
    LET ext == ExtChars(r)
    IN IF i >= 0 /\ i < Len(ext) THEN Width(ext[i + 1]) ELSE 1

RECURSIVE RecalcLoop(_, _, _, _, _)
\* The loop shared by recalculate_graphemes and util::raw_to_grapheme:
\* walk the widths until the running total equals the column.
RecalcLoop(jumps, k, counter, target, g) ==
    IF k > Len(jumps) \/ counter = target THEN g
    ELSE RecalcLoop(jumps, k + 1, counter + jumps[k], target, k)

\* util::raw_to_grapheme(x, string).
raw_to_grapheme(x, r) == RecalcLoop(GetJumps(r), 1, 0, x, 0)

SatSub(a, b) == IF a > b THEN a - b ELSE 0

Min(a, b) == IF a < b THEN a ELSE b

\* The decimal digits of n (n.to_string().len()).
Digits(n) == IF n < 10 THEN 1 ELSE IF n < 100 THEN 2 ELSE 3

\* Document::recalculate_offset: the gutter holds the widest line number.
RecalculateOffset(rs) == Digits(Len(rs)) + 2

\* ------------------------------------------------------------ editor state

VARIABLES
    quit,          \* Editor.quit
    show_welcome,  \* Editor.show_welcome
    dirty,         \* Editor.dirty
    graphemes,     \* Editor.graphemes
    command_line,  \* Editor.command_line: [msg, text]
    term,          \* Editor.term: [height, width]
    cursor,        \* Editor.cursor: [x, y]
    offset,        \* Editor.offset: [x, y]
    rows,          \* Editor.doc.rows
    path,          \* Editor.doc.path
    undo_stack,    \* Editor.doc.undo_stack
    redo_stack,    \* Editor.doc.redo_stack
    line_offset,   \* Editor.doc.line_offset
    frame,         \* the frame render() printed last, <<>> before the first
    panicked       \* the process died in a panic

edvars == <<quit, show_welcome, dirty, graphemes, command_line, term, cursor,
            offset, rows, path, undo_stack, redo_stack, line_offset,
            frame, panicked>>

\* The editor as one value, for the handlers below.
Self ==
    [quit |-> quit, show_welcome |-> show_welcome, dirty |-> dirty,
     graphemes |-> graphemes, command_line |-> command_line, term |-> term,
     cursor |-> cursor, offset |-> offset, rows |-> rows, path |-> path,
     undo_stack |-> undo_stack, redo_stack |-> redo_stack,
     line_offset |-> line_offset, frame |-> frame, panicked |-> panicked]

Becomes(s) ==
    /\ quit' = s.quit
    /\ show_welcome' = s.show_welcome
    /\ dirty' = s.dirty
    /\ graphemes' = s.graphemes
    /\ command_line' = s.command_line
    /\ term' = s.term
    /\ cursor' = s.cursor
    /\ offset' = s.offset
    /\ rows' = s.rows
    /\ path' = s.path
    /\ undo_stack' = s.undo_stack
    /\ redo_stack' = s.redo_stack
    /\ line_offset' = s.line_offset
    /\ frame' = s.frame
    /\ panicked' = s.panicked

Panic(s) == [s EXCEPT !.panicked = TRUE]

\* cursor + offset, the absolute document position.
AbsX(s) == s.cursor.x + s.offset.x
AbsY(s) == s.cursor.y + s.offset.y

\* self.doc.rows[y] is in bounds.
HasRow(s, y) == y >= 0 /\ y < Len(s.rows)

\* self.doc.rows[cursor.y + offset.y]
CurRow(s) == s.rows[AbsY(s) + 1]

\* self.term.height.saturating_sub(3)
MaxRange(s) == SatSub(s.term.height, 3)

set_command_line(s, text, msg) ==
    [s EXCEPT !.command_line = [msg |-> msg, text |-> text]]

\* -------------------------------------------------- viewport & cursor model

\* recalculate_graphemes: graphemes is left as it was when the column is 0.
recalculate_graphemes(s) ==
    IF s.panicked THEN s
    ELSE IF ~HasRow(s, AbsY(s)) THEN Panic(s)
    ELSE [s EXCEPT !.graphemes =
            RecalcLoop(GetJumps(CurRow(s)), 1, 0, AbsX(s), s.graphemes)]

RECURSIVE UnicodeHellLoop(_, _, _)
UnicodeHellLoop(s, boundaries, index) ==
    IF index \in boundaries \/ index = 0 THEN s
    ELSE UnicodeHellLoop(
            [s EXCEPT !.cursor.x = SatSub(s.cursor.x, 1),
                      !.graphemes = SatSub(s.graphemes, 1)],
            boundaries, index - 1)

prevent_unicode_hell(s) ==
    IF s.panicked THEN s
    ELSE IF ~HasRow(s, AbsY(s)) THEN Panic(s)
    ELSE IF RowLength(CurRow(s)) > AbsX(s)
         THEN UnicodeHellLoop(s, Boundaries(CurRow(s)), AbsX(s))
         ELSE s

leap_home(s) ==
    [s EXCEPT !.offset.x = 0, !.cursor.x = 0, !.graphemes = 0]

\* An End that scrolls only when the row is strictly longer than the visible
\* width.
LeapEndStrict(s) ==
    IF ~HasRow(s, AbsY(s)) THEN Panic(s)
    ELSE LET line == CurRow(s)
             len == RowLength(line)
             jump == Jump(line, len)
         IN IF len > SatSub(s.term.width, s.line_offset)
            THEN [s EXCEPT
                    !.offset.x = SatSub(len + jump + s.line_offset + 1, s.term.width),
                    !.cursor.x = SatSub(s.term.width, jump + s.line_offset + 1),
                    !.graphemes = Len(Chars(line))]
            ELSE [s EXCEPT !.cursor.x = len, !.graphemes = Len(Chars(line))]

leap_end(s) ==
    IF ~HasRow(s, AbsY(s)) THEN Panic(s)
    ELSE LET line == CurRow(s)
             len == RowLength(line)
             jump == Jump(line, len)
         IN IF len >= SatSub(s.term.width, s.line_offset)
            THEN [s EXCEPT
                    !.offset.x = SatSub(len + jump + s.line_offset + 1, s.term.width),
                    !.cursor.x = SatSub(s.term.width, jump + s.line_offset + 1),
                    !.graphemes = Len(Chars(line))]
            ELSE [s EXCEPT !.cursor.x = len, !.graphemes = Len(Chars(line))]

snap_cursor(s) ==
    IF s.panicked THEN s
    ELSE IF ~HasRow(s, AbsY(s)) THEN Panic(s)
    ELSE IF RowLength(CurRow(s)) <= AbsX(s)
         THEN leap_end(leap_home(s))
         ELSE s

\* The tail of every vertical move: snap, boundary fix, grapheme recalculation.
Settle(s) == recalculate_graphemes(prevent_unicode_hell(snap_cursor(s)))

leap_cursor(s, action) ==
    IF s.panicked THEN s
    ELSE CASE action = "PageUp" -> Settle([s EXCEPT !.cursor.y = 0])
           [] action = "PageDown" ->
                Settle([s EXCEPT !.cursor.y =
                            Min(SatSub(Len(s.rows), 1), MaxRange(s))])
           [] action = "Home" -> leap_home(s)
           [] action = "End" -> leap_end(s)
           [] OTHER -> s

move_right(s) ==
    IF ~HasRow(s, AbsY(s)) THEN Panic(s)
    ELSE LET line == CurRow(s)
             jump == Jump(line, AbsX(s))
         IN IF RowLength(line) > AbsX(s)
            THEN LET indicator1 ==
                        s.cursor.x = SatSub(s.term.width, s.line_offset + jump + 1)
                     indicator2 ==
                        s.cursor.x = SatSub(s.term.width, s.line_offset + jump)
                 IN IF indicator1 \/ indicator2
                    THEN [s EXCEPT !.offset.x = s.offset.x + jump,
                                   !.graphemes = s.graphemes + 1]
                    ELSE [s EXCEPT !.cursor.x = s.cursor.x + jump,
                                   !.graphemes = s.graphemes + 1]
            ELSE s

move_left(s) ==
    IF ~HasRow(s, AbsY(s)) THEN Panic(s)
    ELSE LET line == CurRow(s)
             jump == Jump(line, SatSub(AbsX(s), 1))
         IN IF s.cursor.x = 0
            THEN [s EXCEPT !.offset.x = SatSub(s.offset.x, jump),
                           !.graphemes = SatSub(s.graphemes, 1)]
            ELSE [s EXCEPT !.cursor.x = SatSub(s.cursor.x, jump),
                           !.graphemes = SatSub(s.graphemes, 1)]

move_down(s) ==
    IF AbsY(s) + 1 < Len(s.rows)
    THEN Settle(IF s.cursor.y = MaxRange(s)
                THEN [s EXCEPT !.offset.y = s.offset.y + 1]
                ELSE [s EXCEPT !.cursor.y = s.cursor.y + 1])
    ELSE s

move_up(s) ==
    Settle(IF s.cursor.y = 0
           THEN [s EXCEPT !.offset.y = SatSub(s.offset.y, 1)]
           ELSE [s EXCEPT !.cursor.y = s.cursor.y - 1])

move_cursor(s, direction) ==
    IF s.panicked THEN s
    ELSE CASE direction = "Down" -> move_down(s)
           [] direction = "Up" -> move_up(s)
           [] direction = "Right" -> move_right(s)
           [] direction = "Left" -> move_left(s)
           [] OTHER -> s

\* goto_behind(position)
goto_behind(s, position) ==
    LET max_range == MaxRange(s)
        max_x == SatSub(s.term.width, s.line_offset)
    IN IF s.offset.y = 0 /\ position.y < max_range
       THEN [s EXCEPT !.cursor = position]
       ELSE LET sx == IF position.x > max_x
                      THEN [s EXCEPT !.offset.x = position.x]
                      ELSE [s EXCEPT !.cursor.x = position.x]
            IN IF position.y < max_range
               THEN [sx EXCEPT !.offset.y = 0, !.cursor.y = position.y]
               ELSE [sx EXCEPT !.offset.y = position.y, !.cursor.y = 0]

\* goto_ahead(position)
goto_ahead(s, position) ==
    LET max_range == MaxRange(s)
        max_x == SatSub(s.term.width, s.line_offset)
    IN IF s.offset.y = 0 /\ position.y < max_range
       THEN [s EXCEPT !.cursor = position]
       ELSE LET sx == IF position.x > max_x
                      THEN [s EXCEPT !.offset.x = position.x]
                      ELSE [s EXCEPT !.cursor.x = position.x]
            IN [sx EXCEPT !.offset.y = SatSub(position.y, max_range),
                          !.cursor.y = max_range]

\* --------------------------------------------------------- undo/redo log

\* Vec::insert(i, v), Vec::remove(i) and rows[i] = v, with 0-based i.
SeqInsert(q, i, v) == SubSeq(q, 1, i) \o <<v>> \o SubSeq(q, i + 1, Len(q))
SeqRemove(q, i) == SubSeq(q, 1, i) \o SubSeq(q, i + 2, Len(q))
SetRow(s, y, r) == [s EXCEPT !.rows[y + 1] = r]

\* The Event variants; c and breakpoint are "" and 0 where a variant has none.
Ev(type, pos, c, breakpoint) ==
    [type |-> type, pos |-> pos, c |-> c, breakpoint |-> breakpoint]

\* Position { x: cursor.x + offset.x, y: cursor.y + offset.y }
AbsPos(s) == [x |-> AbsX(s), y |-> AbsY(s)]

\* EventStack::push / EventStack::empty
PushUndo(s, e) == [s EXCEPT !.undo_stack = Append(s.undo_stack, e)]
PushRedo(s, e) == [s EXCEPT !.redo_stack = Append(s.redo_stack, e)]
EmptyRedo(s) == [s EXCEPT !.redo_stack = <<>>]

\* self.doc.rows[cursor.y + offset.y].insert(c, self.graphemes)
InsertHere(s, c) ==
    IF s.panicked THEN s
    ELSE IF ~HasRow(s, AbsY(s)) THEN Panic(s)
    ELSE SetRow(s, AbsY(s), RowInsert(CurRow(s), c, s.graphemes))

RECURSIVE TabLoop(_, _)
TabLoop(s, n) ==
    IF n = 0 \/ s.panicked THEN s
    ELSE TabLoop(move_cursor(InsertHere(s, " "), "Right"), n - 1)

tab(s) == TabLoop(s, TAB_WIDTH)

return_key(s0) ==
    LET s == [s0 EXCEPT !.dirty = TRUE, !.show_welcome = FALSE]
    IN IF s.panicked THEN s
       ELSE IF AbsX(s) = 0
       THEN \* at the start of the line
            IF AbsY(s) > Len(s.rows) THEN Panic(s)
            ELSE move_cursor(
                    PushUndo([s EXCEPT !.rows = SeqInsert(s.rows, AbsY(s), <<>>)],
                             Ev("ReturnStart", AbsPos(s), "", 0)),
                    "Down")
       ELSE IF ~HasRow(s, AbsY(s)) THEN Panic(s)
       ELSE IF AbsX(s) = RowLength(CurRow(s))
       THEN \* at the end of the line
            recalculate_graphemes(leap_cursor(move_cursor(
                PushUndo([s EXCEPT !.rows = SeqInsert(s.rows, AbsY(s) + 1, <<>>)],
                         Ev("ReturnEnd", AbsPos(s), "", 0)),
                "Down"), "Home"))
       ELSE \* in the middle of the line
            LET current == Chars(CurRow(s))
            IN IF s.graphemes > Len(current) THEN Panic(s)
               ELSE LET before == SubSeq(current, 1, s.graphemes)
                        after == SubSeq(current, s.graphemes + 1, Len(current))
                        s1 == [s EXCEPT !.rows =
                                [SeqInsert(s.rows, AbsY(s) + 1, after)
                                    EXCEPT ![AbsY(s) + 1] = before]]
                    IN leap_cursor(move_cursor(
                        PushUndo(s1, Ev("ReturnMid", AbsPos(s), "", RowLength(before))),
                        "Down"), "Home")

character(s0, c) ==
    LET s == [s0 EXCEPT !.dirty = TRUE, !.show_welcome = FALSE]
        done ==
            CASE c = "\n" -> return_key(s)
              [] c = "\t" ->
                    LET t == tab(s)
                    IN IF t.panicked THEN t
                       ELSE PushUndo(t, Ev("InsertTab", AbsPos(t), "", 0))
              [] OTHER ->
                    LET i == InsertHere(s, c)
                    IN IF i.panicked THEN i
                       ELSE move_cursor(
                                PushUndo(i, Ev("InsertMid", AbsPos(i), c, 0)),
                                "Right")
    IN IF s0.panicked THEN s0
       ELSE IF done.panicked THEN done
       ELSE EmptyRedo(done)

backspace(s0) ==
    LET s == [s0 EXCEPT !.dirty = TRUE, !.show_welcome = FALSE]
    IN IF s0.panicked THEN s0
       ELSE IF AbsX(s) = 0 /\ AbsY(s) # 0
       THEN \* at the start of a line
            IF ~HasRow(s, AbsY(s)) THEN Panic(s)
            ELSE LET current == CurRow(s)
                     prev == s.rows[AbsY(s)]
                     joined == [s EXCEPT !.rows =
                                 SeqRemove([s.rows EXCEPT ![AbsY(s)] = prev \o current],
                                           AbsY(s))]
                     up == move_cursor(joined, "Up")
                     at == recalculate_graphemes(
                             IF up.panicked THEN up
                             ELSE [up EXCEPT !.cursor.x = RowLength(prev)])
                 IN IF at.panicked THEN at
                    ELSE PushUndo(at, Ev("BackspaceStart", AbsPos(at), "", 0))
       ELSE \* in the middle of a line
            LET l == move_cursor(s, "Left")
            IN IF l.panicked THEN l
               ELSE LET ch == Chars(CurRow(l))
                        d == SetRow(l, AbsY(l), RowDelete(CurRow(l), l.graphemes))
                    IN IF l.graphemes < Len(ch)
                       THEN PushUndo(d, Ev("BackspaceMid", AbsPos(d), ch[l.graphemes + 1], 0))
                       ELSE d

RECURSIVE Repeat(_, _, _)
\* for _ in 0..n { self.move_cursor(direction) }
Repeat(s, direction, n) ==
    IF n = 0 \/ s.panicked THEN s
    ELSE Repeat(move_cursor(s, direction), direction, n - 1)

RECURSIVE UndoTabLoop(_, _, _)
\* for i in 1..=TAB_WIDTH { rows[pos.y].delete(pos.x - i); move_cursor(Left) }
UndoTabLoop(s, pos, i) ==
    IF i > TAB_WIDTH \/ s.panicked THEN s
    ELSE IF ~HasRow(s, pos.y) \/ pos.x < i THEN Panic(s)
    ELSE UndoTabLoop(
            move_cursor(SetRow(s, pos.y, RowDelete(s.rows[pos.y + 1], pos.x - i)),
                        "Left"),
            pos, i + 1)

\* The inverse of one event (the match in undo).
UndoEvent(s, event) ==
    LET pos == event.pos
    IN CASE event.type = "InsertTab" -> UndoTabLoop(s, pos, 1)
         [] event.type = "InsertMid" ->
              LET c_len == Width(event.c)
              IN IF pos.y < s.offset.y THEN Panic(s)
                 ELSE LET s1 == [s EXCEPT !.cursor.y = pos.y - s.offset.y]
                      IN IF pos.x + c_len < s1.offset.x THEN Panic(s1)
                         ELSE LET s2 == recalculate_graphemes(
                                    [s1 EXCEPT !.cursor.x = pos.x + c_len - s1.offset.x])
                              IN IF s2.panicked THEN s2
                                 ELSE Repeat(
                                        SetRow(s2, pos.y,
                                               RowDelete(s2.rows[pos.y + 1],
                                                   raw_to_grapheme(pos.x, s2.rows[pos.y + 1]))),
                                        "Left", c_len)
         [] event.type = "BackspaceMid" ->
              IF ~HasRow(s, pos.y) THEN Panic(s)
              ELSE move_cursor(
                    SetRow(s, pos.y, RowInsert(s.rows[pos.y + 1], event.c, pos.x)),
                    "Right")
         [] event.type = "ReturnEnd" ->
              IF ~HasRow(s, pos.y + 1) THEN Panic(s)
              ELSE leap_cursor(
                    move_cursor([s EXCEPT !.rows = SeqRemove(s.rows, pos.y + 1)], "Up"),
                    "End")
         [] event.type = "ReturnStart" ->
              IF ~HasRow(s, pos.y) THEN Panic(s)
              ELSE move_cursor([s EXCEPT !.rows = SeqRemove(s.rows, pos.y)], "Up")
         [] event.type = "ReturnMid" ->
              IF ~HasRow(s, pos.y + 1) THEN Panic(s)
              ELSE LET current == s.rows[pos.y + 1]
                       after == s.rows[pos.y + 2]
                       s1 == [s EXCEPT !.rows =
                                [SeqRemove(s.rows, pos.y)
                                    EXCEPT ![pos.y + 1] = current \o after]]
                   IN Repeat(leap_cursor(move_cursor(s1, "Up"), "Home"),
                             "Right", event.breakpoint)
         [] event.type = "BackspaceStart" ->
              IF ~HasRow(s, pos.y) THEN Panic(s)
              ELSE LET r == s.rows[pos.y + 1]
                   IN IF pos.x \notin CharBoundaries(r) THEN Panic(s)
                      ELSE LET k == CharsInBytes(r, pos.x)
                               before == SubSeq(r, 1, k)
                               after == SubSeq(r, k + 1, Len(r))
                               s1 == [s EXCEPT !.rows =
                                        SeqInsert([s.rows EXCEPT ![pos.y + 1] = after],
                                                  pos.y, before)]
                           IN leap_cursor(move_cursor(s1, "Down"), "Home")

\* format!("{:?}", event)
DebugEvent(event) == ToString(event)

\* undo's branch for Some(event): pop, invert, push onto the redo stack, report.
UndoPopped(s) ==
    LET event == s.undo_stack[Len(s.undo_stack)]
        popped == [s EXCEPT !.undo_stack = SubSeq(s.undo_stack, 1, Len(s.undo_stack) - 1)]
        u == UndoEvent(popped, event)
    IN IF u.panicked THEN u
       ELSE set_command_line(PushRedo(u, event), DebugEvent(event), "Info")

\* An undo that, on an empty stack, marks the document dirty and reports the
\* empty stack as Info.
UndoMarkingDirty(s) ==
    IF s.panicked THEN s
    ELSE IF s.undo_stack # <<>>
    THEN UndoPopped(s)
    ELSE set_command_line([s EXCEPT !.dirty = TRUE], "Empty Undo Stack", "Info")

undo(s) ==
    IF s.panicked THEN s
    ELSE IF s.undo_stack # <<>>
    THEN UndoPopped(s)
    ELSE set_command_line(s, "Empty Undo Stack", "Error")

\* The forward edit of one event (the match in redo).
RedoEvent(s, event) ==
    LET pos == event.pos
    IN CASE event.type = "InsertTab" ->
              IF pos.y < s.offset.y THEN Panic(s)
              ELSE LET s1 == [s EXCEPT !.cursor.y = pos.y - s.offset.y]
                   IN IF SatSub(pos.x, TAB_WIDTH) < s1.offset.x THEN Panic(s1)
                      ELSE tab(recalculate_graphemes(
                            [s1 EXCEPT !.cursor.x = SatSub(pos.x, TAB_WIDTH) - s1.offset.x]))
         [] event.type = "InsertMid" ->
              LET c_len == Width(event.c)
              IN IF pos.y < s.offset.y THEN Panic(s)
                 ELSE LET s1 == [s EXCEPT !.cursor.y = pos.y - s.offset.y]
                      IN IF pos.x + c_len < s1.offset.x THEN Panic(s1)
                         ELSE LET s2 == [s1 EXCEPT !.cursor.x = pos.x + c_len - s1.offset.x]
                              IN IF ~HasRow(s2, pos.y) THEN Panic(s2)
                                 ELSE SetRow(s2, pos.y,
                                             RowInsert(s2.rows[pos.y + 1], event.c, pos.x))
         [] OTHER -> s

\* A redo that re-runs an InsertTab through character('\t'), which records
\* the tab once more and empties the redo stack.
RedoThroughCharacter(s) ==
    IF s.panicked THEN s
    ELSE IF s.redo_stack # <<>>
    THEN LET event == s.redo_stack[Len(s.redo_stack)]
             popped == [s EXCEPT !.redo_stack = SubSeq(s.redo_stack, 1, Len(s.redo_stack) - 1)]
             r == RedoEvent(PushUndo(popped, event), event)
             again == IF event.type = "InsertTab"
                      THEN EmptyRedo(PushUndo(r, event))
                      ELSE r
         IN IF r.panicked THEN r
            ELSE set_command_line(again, DebugEvent(event), "Info")
    ELSE set_command_line(s, "Empty Redo Stack", "Error")

redo(s) ==
    IF s.panicked THEN s
    ELSE IF s.redo_stack # <<>>
    THEN LET event == s.redo_stack[Len(s.redo_stack)]
             popped == [s EXCEPT !.redo_stack = SubSeq(s.redo_stack, 1, Len(s.redo_stack) - 1)]
             r == RedoEvent(PushUndo(popped, event), event)
         IN IF r.panicked THEN r
            ELSE set_command_line(r, DebugEvent(event), "Info")
    ELSE set_command_line(s, "Empty Redo Stack", "Error")

\* ------------------------------------------- documents, files and the terminal

\* Document::new(): one empty row.
NewDocument == << <<>> >>
\* Document::new().path and the path given on the command line.
NewPath == ""
ArgPath == "f"

\* The documents Document::open can load from the file system.
Files ==
    { << <<"a", "W", "a">>, <<>>, <<"W", "a">> >> }

\* The sizes the terminal takes (Terminal.height, Terminal.width).
TermSizes == { [height |-> 4, width |-> 7], [height |-> 5, width |-> 9] }

\* The welcome overlay: the rows below term.height / 4 it replaces.
WelcomeRows == {0, 1, 3, 4, 5}

\* A render() that tests for the welcome rows before the status line.
RenderWelcomeFirst(s) ==
    [i \in 1..s.term.height |->
        LET row == i - 1
        IN IF row = s.term.height - 1
           THEN [kind |-> "command_line", text |-> s.command_line.text,
                 msg |-> s.command_line.msg]
           ELSE IF s.show_welcome /\ row - (s.term.height \div 4) \in WelcomeRows
           THEN [kind |-> "welcome_message", n |-> row - (s.term.height \div 4)]
           ELSE IF row = s.term.height - 2
           THEN [kind |-> "status_line"]
           ELSE IF HasRow(s, s.offset.y + row)
           THEN [kind |-> "row", y |-> s.offset.y + row]
           ELSE [kind |-> "~"]]

\* render(): the frame, one line per terminal row, top to bottom. A line is
\* the command line with its text and type, the status line, a row of the
\* welcome overlay, the document row it shows, or the filler "~".
render(s) ==
    [i \in 1..s.term.height |->
        LET row == i - 1
        IN IF row = s.term.height - 1
           THEN [kind |-> "command_line", text |-> s.command_line.text,
                 msg |-> s.command_line.msg]
           ELSE IF row = s.term.height - 2
           THEN [kind |-> "status_line"]
           ELSE IF s.show_welcome /\ row - (s.term.height \div 4) \in WelcomeRows
           THEN [kind |-> "welcome_message", n |-> row - (s.term.height \div 4)]
           ELSE IF HasRow(s, s.offset.y + row)
           THEN [kind |-> "row", y |-> s.offset.y + row]
           ELSE [kind |-> "~"]]

\* update(): recalculate the gutter width, render, place the cursor.
update(s) ==
    IF s.panicked THEN s
    ELSE LET t == [s EXCEPT !.line_offset = RecalculateOffset(s.rows)]
         IN [t EXCEPT !.frame = render(t)]

\* Replacing the document (new_document, open_document):
\* a fresh Document has empty stacks.
ReplaceDocument(s, rs, name) ==
    leap_cursor(
        [s EXCEPT !.rows = rs, !.path = name,
                  !.undo_stack = <<>>, !.redo_stack = <<>>,
                  !.line_offset = 2, !.dirty = FALSE,
                  !.cursor.y = 0, !.offset.y = 0],
        "Home")

\* A new_document that shows the welcome overlay again, as Editor::new does
\* for a fresh document.
NewDocumentWelcoming(s) ==
    [ReplaceDocument(s, NewDocument, NewPath) EXCEPT !.show_welcome = TRUE]

new_document(s) == ReplaceDocument(s, NewDocument, NewPath)

\* open_document once the prompt returned a path: opened is <<doc>>, or <<>>
\* when Document::open returns None.
open_document(s, name, opened) ==
    IF opened # <<>>
    THEN [ReplaceDocument(s, opened[1], name) EXCEPT !.show_welcome = FALSE]
    ELSE set_command_line(s, "File couldn't be opened", "Error")

\* save() with the outcome of Document::save.
save(s, ok) ==
    IF ok
    THEN set_command_line([s EXCEPT !.dirty = FALSE],
            "File saved to " \o s.path \o " successfully", "Info")
    ELSE set_command_line(s, "Failed to save file to " \o s.path, "Error")

\* save_as once the prompt returned a path, with the outcome of
\* Document::save_as.
save_as(s, name, ok) ==
    IF ok
    THEN [set_command_line([s EXCEPT !.dirty = FALSE],
            "File saved to " \o name \o " successfully", "Info")
          EXCEPT !.path = name]
    ELSE set_command_line(s, "Failed to save file to " \o name, "Error")

\* ------------------------------------------------------------------- search

RECURSIVE RowMatches(_, _, _, _)
\* The columns of row r, from grapheme i on, at which needle occurs.
RowMatches(r, needle, i, y) ==
    IF i + Len(needle) - 1 > Len(r) THEN <<>>
    ELSE (IF SubSeq(r, i, i + Len(needle) - 1) = needle
          THEN << [x |-> RowLength(SubSeq(r, 1, i - 1)), y |-> y] >>
          ELSE <<>>)
         \o RowMatches(r, needle, i + 1, y)

RECURSIVE ScanFrom(_, _, _)
ScanFrom(rs, needle, y) ==
    IF y >= Len(rs) THEN <<>>
    ELSE RowMatches(rs[y + 1], needle, 1, y) \o ScanFrom(rs, needle, y + 1)

\* Document::scan(needle): every match position, in document order.
scan(rs, needle) == ScanFrom(rs, needle, 0)

\* util::is_behind / util::is_ahead: strictly before / after the cursor.
is_behind(s, p) ==
    p.y < AbsY(s) \/ (p.y = AbsY(s) /\ p.x < AbsX(s))
is_ahead(s, p) ==
    p.y > AbsY(s) \/ (p.y = AbsY(s) /\ p.x > AbsX(s))

Reverse(q) == [i \in 1..Len(q) |-> q[Len(q) + 1 - i]]

\* for p in points { if is_ahead(..) { goto_ahead(p); recalculate_graphemes(); break } }
JumpAhead(s, points) ==
    LET hits == {i \in 1..Len(points) : is_ahead(s, points[i])}
    IN IF hits = {} THEN s
       ELSE recalculate_graphemes(
                goto_ahead(s, points[CHOOSE i \in hits : \A j \in hits : i <= j]))

JumpBehind(s, points) ==
    LET hits == {i \in 1..Len(points) : is_behind(s, points[i])}
    IN IF hits = {} THEN s
       ELSE recalculate_graphemes(
                goto_behind(s, points[CHOOSE i \in hits : \A j \in hits : i <= j]))

\* A search closure whose Esc leaves cursor and offset where the last jump
\* put them.
SearchReactionStaying(s, e, t, init) ==
    IF s.panicked THEN s
    ELSE LET search_points == scan(s.rows, t)
             restored == [s EXCEPT !.cursor = init.cursor, !.offset = init.offset]
         IN CASE e \in {"Left", "Up"} -> JumpBehind(s, Reverse(search_points))
              [] e \in {"Right", "Down"} -> JumpAhead(s, search_points)
              [] e = "Esc" -> recalculate_graphemes(s)
              [] e = "CharPress" ->
                    IF t # <<>> THEN JumpAhead(restored, search_points)
                    ELSE restored
              [] OTHER -> s

\* The closure search hands to prompt: (s, e, t) with e the PromptEvent.
SearchReaction(s, e, t, init) ==
    IF s.panicked THEN s
    ELSE LET search_points == scan(s.rows, t)
             restored == [s EXCEPT !.cursor = init.cursor, !.offset = init.offset]
         IN CASE e \in {"Left", "Up"} -> JumpBehind(s, Reverse(search_points))
              [] e \in {"Right", "Down"} -> JumpAhead(s, search_points)
              [] e = "Esc" -> recalculate_graphemes(restored)
              [] e = "CharPress" ->
                    IF t # <<>> THEN JumpAhead(restored, search_points)
                    ELSE restored
              [] OTHER -> s

\* The reaction of the prompt named label (save_as and open pass a no-op).
Reaction(s, label, e, t, init) ==
    IF label = "Search" THEN SearchReaction(s, e, t, init) ELSE s

RECURSIVE Join(_)
\* The prompt's buffer as text.
Join(q) == IF q = <<>> THEN "" ELSE Head(q) \o Join(Tail(q))

\* ------------------------------------------------- the main loop's position

VARIABLES
    pc,        \* where the process waits in read_key:
               \* "process_input", "dirty_prompt" or "prompt"
    arg,       \* the subject of the dirty prompt / the label of the prompt
    result,    \* prompt's buffer
    initial,   \* search's initial_cursor and initial_offset
    \* History variables, read by the bounds and the properties only.
    ops,       \* content-changing handlers invoked so far
    stored,    \* the rows as last saved, loaded or created
    undoFrom,  \* content and position right before the undo handled last
    track      \* the running sequence of edits and their undos

vars == <<quit, show_welcome, dirty, graphemes, command_line, term, cursor,
          offset, rows, path, undo_stack, redo_stack, line_offset, frame, panicked,
          pc, arg, result, initial, ops, stored, undoFrom, track>>

\* Content and absolute cursor position.
Snapshot(s) == [rows |-> s.rows, pos |-> AbsPos(s)]
NoSnapshot == [rows |-> <<>>, pos |-> [x |-> 0, y |-> 0]]
NoTrack == [phase |-> "none", base |-> NoSnapshot, n |-> 0]
NoInitial == [cursor |-> [x |-> 0, y |-> 0], offset |-> [x |-> 0, y |-> 0]]

EditKeys == TypedChars \cup {"\t", "\n", "Backspace"}

\* The sequence of edits followed by their undos, after the handler of key
\* ran from s: an edit extends (or starts) the sequence, an undo takes one
\* edit off it, anything else ends it.
Tracked(key, s) ==
    CASE key \in EditKeys ->
            IF track.phase = "edit"
            THEN [track EXCEPT !.n = track.n + 1]
            ELSE [phase |-> "edit", base |-> Snapshot(s), n |-> 1]
      [] key = "Ctrl_u" /\ track.phase \in {"edit", "undo"} ->
            [track EXCEPT !.n = track.n - 1,
                          !.phase = IF track.n = 1 THEN "done" ELSE "undo"]
      [] OTHER -> NoTrack

\* The document and the grapheme index stay within the bounds of the model
\* (recalculate_graphemes leaves the index as it was at column 0, so cursor
\* moves alone can raise it without limit).
Fits(t) ==
    /\ Len(t.rows) <= MaxRows
    /\ \A i \in 1..Len(t.rows) : Len(t.rows[i]) <= MaxCols
    /\ t.graphemes <= MaxCols

\* The handler of key changes content: an edit, or an undo / redo that pops.
ChangesContent(key, s) ==
    \/ key \in EditKeys
    \/ key = "Ctrl_u" /\ s.undo_stack # <<>>
    \/ key = "Ctrl_y" /\ s.redo_stack # <<>>

\* The handler of key took the editor from s to t; saved tells whether it
\* wrote the document out or replaced it.
Handled(key, s, t, saved) ==
    /\ Fits(t)
    /\ Becomes(t)
    /\ ops' = IF ChangesContent(key, s) THEN ops + 1 ELSE ops
    /\ stored' = IF saved THEN t.rows ELSE stored
    /\ undoFrom' = IF key = "Ctrl_u" /\ s.undo_stack # <<>>
                   THEN Snapshot(s) ELSE NoSnapshot
    /\ track' = Tracked(key, s)

Running == ~quit /\ ~panicked

InMain == Running /\ pc = "process_input"

ToMain == pc' = "process_input" /\ arg' = "" /\ result' = <<>> /\ initial' = NoInitial

StayInMain == UNCHANGED <<pc, arg, result, initial>>

\* ------------------------------------------------- dirty prompt and prompt

\* util::title(subject)
title(subject) ==
    CASE subject = "quit" -> "Quit" [] subject = "new" -> "New" [] OTHER -> "Open"

\* The letter dirty_prompt is called with.
GateLetter(subject) ==
    CASE subject = "quit" -> "q" [] subject = "new" -> "n" [] OTHER -> "o"

GateUpper(subject) ==
    CASE subject = "quit" -> "Q" [] subject = "new" -> "N" [] OTHER -> "O"

\* dirty_prompt up to its read_key: the warning and a frame.
DirtyWarning(s, subject) ==
    update(set_command_line(s,
        "Unsaved Changes! Ctrl + " \o GateUpper(subject) \o " to force " \o subject,
        "Warning"))

\* The keys read_key can return to dirty_prompt.
GateKeys == {"\n", "Ctrl_q", "Ctrl_n", "Ctrl_o", "Ctrl_s", "Esc", "a"}

\* A gate that any Ctrl combination passes.
GatePassesAnyCtrl(key, subject) ==
    key = "\n" \/ key \in {"Ctrl_q", "Ctrl_n", "Ctrl_o", "Ctrl_s"}

\* dirty_prompt's match on the key it read.
GatePasses(key, subject) ==
    key = "\n" \/ key = "Ctrl_" \o GateLetter(subject)

\* prompt up to its first read_key: the label and a frame.
PromptStart(s, label) ==
    update(set_command_line(s, label \o ": ", "Info"))

\* A turn of prompt's loop that renders the frame before it sets the
\* command line.
PromptTurnRenderingFirst(s, label, t, init) ==
    Reaction(set_command_line(update(s), label \o ": " \o Join(t), "Info"),
             label, "Update", t, init)

\* The end of one turn of prompt's loop.
PromptTurn(s, label, t, init) ==
    update(Reaction(set_command_line(s, label \o ": " \o Join(t), "Info"),
                    label, "Update", t, init))

\* What the caller of dirty_prompt does once the gate passed.
\* quit: self.quit = true
do_quit(s) == [s EXCEPT !.quit = TRUE]

\* ------------------------------------------------------------------ actions

\* Key::Char(c) => self.character(c)
KeyChar ==
    /\ InMain
    /\ \E c \in TypedChars \cup {"\t", "\n"} :
        Handled(c, Self, character(update(Self), c), FALSE)
    /\ StayInMain

\* Key::Backspace => self.backspace()
KeyBackspace ==
    /\ InMain
    /\ Handled("Backspace", Self, backspace(update(Self)), FALSE)
    /\ StayInMain

\* Key::Ctrl('u') => self.undo()
KeyUndo ==
    /\ InMain
    /\ Handled("Ctrl_u", Self, undo(update(Self)), FALSE)
    /\ StayInMain

\* Key::Ctrl('y') => self.redo()
KeyRedo ==
    /\ InMain
    /\ Handled("Ctrl_y", Self, redo(update(Self)), FALSE)
    /\ StayInMain

\* Key::Left | Key::Right | Key::Up | Key::Down => self.move_cursor(key)
KeyMoveWith(k) ==
    /\ InMain
    /\ Handled(k, Self, move_cursor(update(Self), k), FALSE)
    /\ StayInMain

KeyMove == \E k \in {"Left", "Right", "Up", "Down"} : KeyMoveWith(k)

\* Key::PageDown | Key::PageUp | Key::Home | Key::End => self.leap_cursor(key)
KeyLeapWith(k) ==
    /\ InMain
    /\ Handled(k, Self, leap_cursor(update(Self), k), FALSE)
    /\ StayInMain

KeyLeap == \E k \in {"PageDown", "PageUp", "Home", "End"} : KeyLeapWith(k)

\* Any other key: `_ => ()`
KeyOther ==
    /\ InMain
    /\ Handled("Other", Self, update(Self), FALSE)
    /\ StayInMain

\* Key::Ctrl('s') => self.save(), with either outcome of Document::save
KeySave ==
    /\ InMain
    /\ \E ok \in BOOLEAN :
        Handled("Ctrl_s", Self, save(update(Self), ok), ok)
    /\ StayInMain

\* Key::Ctrl('q') => self.quit(), up to the gate's read_key
KeyQuit ==
    /\ InMain
    /\ IF dirty
       THEN /\ Handled("Ctrl_q", Self, DirtyWarning(update(Self), "quit"), FALSE)
            /\ pc' = "dirty_prompt" /\ arg' = "quit"
            /\ UNCHANGED <<result, initial>>
       ELSE /\ Handled("Ctrl_q", Self, do_quit(update(Self)), FALSE)
            /\ StayInMain

\* Key::Ctrl('n') => self.new_document(), up to the gate's read_key
KeyNew ==
    /\ InMain
    /\ IF dirty
       THEN /\ Handled("Ctrl_n", Self, DirtyWarning(update(Self), "new"), FALSE)
            /\ pc' = "dirty_prompt" /\ arg' = "new"
            /\ UNCHANGED <<result, initial>>
       ELSE /\ Handled("Ctrl_n", Self, new_document(update(Self)), TRUE)
            /\ StayInMain

\* Key::Ctrl('o') => self.open_document(), up to the next read_key
KeyOpen ==
    /\ InMain
    /\ IF dirty
       THEN /\ Handled("Ctrl_o", Self, DirtyWarning(update(Self), "open"), FALSE)
            /\ pc' = "dirty_prompt" /\ arg' = "open"
            /\ UNCHANGED <<result, initial>>
       ELSE /\ Handled("Ctrl_o", Self, PromptStart(update(Self), "Open"), FALSE)
            /\ pc' = "prompt" /\ arg' = "Open"
            /\ UNCHANGED <<result, initial>>

\* dirty_prompt from its read_key on, once that returned key, and the rest of
\* its caller
DirtyPromptKeyWith(key) ==
    /\ Running /\ pc = "dirty_prompt"
    /\ IF GatePasses(key, arg)
       THEN CASE arg = "quit" ->
                   /\ Handled("Gate", Self, do_quit(Self), FALSE)
                   /\ ToMain
              [] arg = "new" ->
                   /\ Handled("Gate", Self, new_document(Self), TRUE)
                   /\ ToMain
              [] OTHER ->
                   /\ Handled("Gate", Self, PromptStart(Self, "Open"), FALSE)
                   /\ pc' = "prompt" /\ arg' = "Open"
                   /\ UNCHANGED <<result, initial>>
       ELSE /\ Handled("Gate", Self,
                       set_command_line(Self, title(arg) \o " cancelled", "Info"),
                       FALSE)
            /\ ToMain

DirtyPromptKey == \E key \in GateKeys : DirtyPromptKeyWith(key)

\* Key::Ctrl('w') => self.save_as(), up to the prompt's first read_key
KeySaveAs ==
    /\ InMain
    /\ Handled("Ctrl_w", Self, PromptStart(update(Self), "Save as"), FALSE)
    /\ pc' = "prompt" /\ arg' = "Save as"
    /\ UNCHANGED <<result, initial>>

\* Key::Ctrl('f') => self.search(), up to the prompt's first read_key
KeySearch ==
    /\ InMain
    /\ Handled("Ctrl_f", Self, PromptStart(update(Self), "Search"), FALSE)
    /\ pc' = "prompt" /\ arg' = "Search"
    /\ initial' = [cursor |-> cursor, offset |-> offset]
    /\ UNCHANGED result

InPrompt == Running /\ pc = "prompt"

\* prompt: Key::Char(c), c not a newline
PromptChar ==
    /\ InPrompt
    /\ Len(result) < MaxPrompt
    /\ \E c \in TypedChars :
        LET t == Append(result, c)
        IN /\ Handled("PromptChar", Self,
                      PromptTurn(Reaction(Self, arg, "CharPress", t, initial),
                                 arg, t, initial),
                      FALSE)
           /\ result' = t
    /\ UNCHANGED <<pc, arg, initial>>

\* A prompt whose Backspace leaves the buffer as it is.
PromptBackspaceKeeping ==
    /\ InPrompt
    /\ Handled("PromptBackspace", Self,
               PromptTurn(Reaction(Self, arg, "CharPress", result, initial),
                          arg, result, initial),
               FALSE)
    /\ UNCHANGED <<pc, arg, result, initial>>

\* prompt: Key::Backspace
PromptBackspace ==
    /\ InPrompt
    /\ LET t == SubSeq(result, 1, Len(result) - 1)
       IN /\ Handled("PromptBackspace", Self,
                     PromptTurn(Reaction(Self, arg, "CharPress", t, initial),
                                arg, t, initial),
                     FALSE)
          /\ result' = t
    /\ UNCHANGED <<pc, arg, initial>>

\* prompt: any key but Char, Backspace and Esc
PromptOther ==
    /\ InPrompt
    /\ \E key \in {"Left", "Right", "Up", "Down", "Home"} :
        Handled("PromptKey", Self,
                PromptTurn(Reaction(Self, arg, key, result, initial),
                           arg, result, initial),
                FALSE)
    /\ UNCHANGED <<pc, arg, result, initial>>

\* prompt: Key::Esc returns None, and the rest of the caller
PromptEsc ==
    /\ InPrompt
    /\ LET s == Reaction(Self, arg, "Esc", result, initial)
           t == CASE s.panicked -> s
                  [] arg = "Save as" -> set_command_line(s, "Save as cancelled", "Info")
                  [] arg = "Search" -> set_command_line(s, "Search exited", "Info")
                  [] OTHER -> s
       IN Handled("PromptEsc", Self, t, FALSE)
    /\ ToMain

\* prompt: Key::Char('\n') returns Some(result), and the rest of save_as
PromptReturnSaveAs ==
    /\ InPrompt /\ arg = "Save as"
    /\ \E ok \in BOOLEAN :
        Handled("PromptReturn", Self, save_as(Self, Join(result), ok), ok)
    /\ ToMain

\* prompt: Key::Char('\n') returns Some(result), and the rest of open_document
PromptReturnOpen ==
    /\ InPrompt /\ arg = "Open"
    /\ \E opened \in {<<>>} \cup {<<f>> : f \in Files} :
        Handled("PromptReturn", Self, open_document(Self, Join(result), opened),
                opened # <<>>)
    /\ ToMain

\* prompt: Key::Char('\n') returns Some(result), and the rest of search
PromptReturnSearch ==
    /\ InPrompt /\ arg = "Search"
    /\ Handled("PromptReturn", Self, set_command_line(Self, "Search exited", "Info"), FALSE)
    /\ ToMain

\* read_key's idle branch: check_resize() saw a new size
Resize ==
    /\ Running
    /\ \E size \in TermSizes \ {term} :
        LET s == [Self EXCEPT !.term = size]
            clamped == IF s.cursor.y > MaxRange(s)
                       THEN [s EXCEPT !.cursor.y = MaxRange(s)]
                       ELSE s
        IN Becomes(update(clamped))
    /\ track' = NoTrack
    /\ undoFrom' = NoSnapshot
    /\ UNCHANGED <<pc, arg, result, initial, ops, stored>>

\* The sizes a resize can also give the terminal: the two lowest that hold
\* a status line, and one that holds the whole welcome overlay.
FrameSizes ==
    { [height |-> 2, width |-> 7], [height |-> 3, width |-> 7],
      [height |-> 12, width |-> 9] }

\* read_key's idle branch: check_resize() saw one of FrameSizes
ResizeAny ==
    /\ Running
    /\ \E size \in FrameSizes \ {term} :
        LET s == [Self EXCEPT !.term = size]
            clamped == IF s.cursor.y > MaxRange(s)
                       THEN [s EXCEPT !.cursor.y = MaxRange(s)]
                       ELSE s
        IN Becomes(update(clamped))
    /\ track' = NoTrack
    /\ undoFrom' = NoSnapshot
    /\ UNCHANGED <<pc, arg, result, initial, ops, stored>>

Init ==
    /\ quit = FALSE
    /\ dirty = FALSE
    /\ command_line = [msg |-> "Info", text |-> "Welcome to Ox!"]
    /\ term \in TermSizes
    /\ graphemes = 0
    /\ cursor = [x |-> 0, y |-> 0]
    /\ offset = [x |-> 0, y |-> 0]
    /\ \/ show_welcome = TRUE /\ rows = NewDocument /\ path = NewPath
       \/ show_welcome = FALSE /\ rows \in Files \cup {NewDocument} /\ path = ArgPath
    /\ undo_stack = <<>>
    /\ redo_stack = <<>>
    /\ line_offset = 2
    /\ frame = <<>>
    /\ panicked = FALSE
    /\ pc = "process_input"
    /\ arg = ""
    /\ result = <<>>
    /\ initial = NoInitial
    /\ ops = 0
    /\ stored = rows
    /\ undoFrom = NoSnapshot
    /\ track = NoTrack

\* The handlers that change content, while fewer than n of them have run.
Changes(n) ==
    \/ ops < n /\ KeyChar
    \/ ops < n /\ KeyBackspace
    \/ ops < n /\ KeyUndo
    \/ ops < n /\ KeyRedo

\* Undo and redo on an empty stack.
EmptyStack ==
    \/ undo_stack = <<>> /\ KeyUndo
    \/ redo_stack = <<>> /\ KeyRedo

Movement == KeyMove \/ KeyLeap

Gate == KeyQuit \/ KeyNew \/ KeyOpen \/ DirtyPromptKey

SearchPrompt == KeySearch \/ PromptReturnSearch

FilePrompts == KeySaveAs \/ PromptReturnSaveAs \/ PromptReturnOpen

PromptKeys == PromptChar \/ PromptBackspace \/ PromptOther \/ PromptEsc

\* The whole program, within the bound on content-changing handlers.
Next ==
    \/ Changes(MaxOps)
    \/ EmptyStack
    \/ Movement
    \/ KeyOther
    \/ KeySave
    \/ Gate
    \/ FilePrompts
    \/ SearchPrompt
    \/ PromptKeys
    \/ Resize

Spec == Init /\ [][Next]_vars

\* The behaviours of Spec in which the cursor is placed first and
\* content-changing handlers alone follow.
NextHistory ==
    \/ ops = 0 /\ KeyMove
    \/ ops = 0 /\ KeyLeap
    \/ Changes(MaxOps)
    \/ EmptyStack

SpecHistory == Init /\ [][NextHistory]_vars

\* The behaviours of Spec in which the terminal is also resized between the
\* content-changing handlers.
NextResize == NextHistory \/ Resize

SpecResize == Init /\ [][NextResize]_vars

\* The behaviours of Spec that only move the cursor and resize the terminal.
NextMoves == Movement \/ Resize

SpecMoves == Init /\ [][NextMoves]_vars

\* The behaviours of Spec that move, scroll, resize and search freely without
\* changing the content.
NextView ==
    \/ Movement
    \/ Resize
    \/ SearchPrompt
    \/ PromptKeys

SpecView == Init /\ [][NextView]_vars

\* The behaviours of Spec that save, replace and quit the document around at
\* most MaxFileOps content-changing handlers, without moving the cursor.
NextFiles ==
    \/ Changes(MaxFileOps)
    \/ EmptyStack
    \/ KeyOther
    \/ KeySave
    \/ Gate
    \/ FilePrompts
    \/ PromptKeys

SpecFiles == Init /\ [][NextFiles]_vars

\* The behaviours of Spec that edit and save, and then quit, replace or
\* open the document through the dirty prompt; a prompt is left by Esc.
NextGate ==
    \/ Changes(MaxFileOps)
    \/ KeySave
    \/ Gate
    \/ PromptEsc

SpecGate == Init /\ [][NextGate]_vars

\* The behaviours of Spec that type characters, tabs and returns and leap
\* with Home, End, PageUp and PageDown.
NextTyping ==
    \/ ops < MaxFileOps /\ KeyChar
    \/ KeyLeap

SpecTyping == Init /\ [][NextTyping]_vars

\* The behaviours of Spec that open the prompts of save as, open and search
\* on an unmodified document and answer them.
NextPrompt ==
    \/ KeySaveAs
    \/ KeyOpen
    \/ KeySearch
    \/ PromptKeys
    \/ PromptReturnSaveAs
    \/ PromptReturnOpen
    \/ PromptReturnSearch

SpecPrompt == Init /\ [][NextPrompt]_vars

\* The behaviours of Spec that search, before or after one edit.
NextSearch ==
    \/ ops = 0 /\ KeyChar
    \/ ops = 0 /\ KeyBackspace
    \/ SearchPrompt
    \/ PromptKeys

SpecSearch == Init /\ [][NextSearch]_vars

\* The behaviours of Spec that move the cursor, make one edit, move the
\* cursor again and undo the edit.
NextMovedUndo ==
    \/ ops <= 1 /\ KeyMove
    \/ ops <= 1 /\ KeyLeap
    \/ ops = 0 /\ KeyChar
    \/ ops = 0 /\ KeyBackspace
    \/ ops = 1 /\ KeyUndo

SpecMovedUndo == Init /\ [][NextMovedUndo]_vars

\* The behaviours of Spec that make one edit and undo it, replace the
\* document by a new or an opened one, and resize the terminal.
NextWelcome ==
    \/ ops = 0 /\ KeyChar
    \/ ops = 0 /\ KeyBackspace
    \/ ops <= 1 /\ KeyUndo
    \/ KeyOther
    \/ KeyNew
    \/ KeyOpen
    \/ DirtyPromptKey
    \/ PromptKeys
    \/ PromptReturnOpen
    \/ Resize

SpecWelcome == Init /\ [][NextWelcome]_vars

\* The behaviours of Spec that leap with the cursor and type one character,
\* in terminals of every size of TermSizes and FrameSizes.
NextFrames ==
    \/ KeyLeap
    \/ ops = 0 /\ KeyChar
    \/ Resize
    \/ ResizeAny

SpecFrames == Init /\ [][NextFrames]_vars

\* The behaviours of Spec that make one edit, undo it, redo it and undo it
\* once more.
NextRedone ==
    \/ ops = 0 /\ KeyChar
    \/ ops = 0 /\ KeyBackspace
    \/ ops \in {1, 3} /\ KeyUndo
    \/ ops = 2 /\ KeyRedo

SpecRedone == Init /\ [][NextRedone]_vars

\* ---------------------------------------------------------------- properties

\* C1 (undo round trip, SpecHistory): once a run of n edits has been followed
\* by n undos, with nothing in between, every row and the absolute cursor
\* position are what they were before the first edit.
C1_UndoRoundTrip ==
    track.phase = "done" => Snapshot(Self) = track.base

\* C2 (redo after undo, SpecHistory): a redo that directly follows an undo
\* restores the rows and the absolute cursor position that were present
\* right before that undo.
C2_RedoRestores ==
    [][KeyRedo /\ undoFrom # NoSnapshot /\ redo_stack # <<>>
            => Snapshot(Self)' = undoFrom]_vars

\* C3 (redo invalidation, SpecHistory): an edit that changes the rows leaves
\* the redo stack empty.
C3_EditClearsRedo ==
    [][(KeyChar \/ KeyBackspace) /\ rows' # rows => redo_stack' = <<>>]_vars

\* C4 (valid row, SpecView): cursor.y + offset.y is the index of a row of the
\* document in every reachable state.
C4_RowInDocument ==
    HasRow(Self, AbsY(Self))

\* C5 (valid column, SpecMoves): cursor.x + offset.x is at most the length of
\* the row at cursor.y + offset.y in every reachable state.
C5_ColumnInRow ==
    HasRow(Self, AbsY(Self)) => AbsX(Self) <= RowLength(CurRow(Self))

\* C6 (viewport rows, SpecResize): cursor.y is at most the terminal height
\* minus 3 in every reachable state.
C6_CursorRowInViewport ==
    cursor.y <= MaxRange(Self)

\* C7 (viewport columns, SpecHistory): cursor.x is at most the terminal width
\* minus the gutter width in every reachable state.
C7_CursorColumnInViewport ==
    cursor.x <= term.width - line_offset

\* C8 (dirty tracking, SpecFiles): whenever the rows differ from what was
\* last saved, loaded or created, dirty is true.
C8_ChangedIsDirty ==
    rows # stored => dirty

C11_MoveByGrapheme ==
    [][/\ KeyMoveWith("Right") /\ HasRow(Self, AbsY(Self))
            /\ AbsX(Self) < RowLength(CurRow(Self))
            => /\ AbsX(Self)' =
                    AbsX(Self) + Width(ExtChars(CurRow(Self))[AbsX(Self) + 1])
               /\ graphemes' = graphemes + 1
       /\ KeyMoveWith("Left") /\ HasRow(Self, AbsY(Self))
            /\ AbsX(Self) > 0 /\ AbsX(Self) <= RowLength(CurRow(Self))
            => /\ AbsX(Self)' =
                    AbsX(Self) - Width(ExtChars(CurRow(Self))[AbsX(Self)])
               /\ graphemes' = graphemes - 1]_vars

\* C12 (boundary fix, SpecMoves): after a vertical move (Up, Down, PageUp,
\* PageDown) that lands on another row, the absolute column is the start of
\* a grapheme of that row or its end, never the interior cell of a
\* double-width grapheme.
C12_VerticalMoveOnBoundary ==
    [][/\ \/ KeyMoveWith("Up") \/ KeyMoveWith("Down")
          \/ KeyLeapWith("PageUp") \/ KeyLeapWith("PageDown")
       /\ ~panicked'
       /\ AbsY(Self)' # AbsY(Self)
       /\ HasRow(Self, AbsY(Self))'
       => AbsX(Self)' \in Boundaries(CurRow(Self)') \cup {RowLength(CurRow(Self)')}]_vars

C15_SearchEscRestores ==
    [][/\ KeySearch => initial' = [cursor |-> cursor, offset |-> offset]
       /\ InPrompt /\ arg = "Search" /\ pc' = "prompt" => initial' = initial
       /\ PromptEsc /\ arg = "Search"
            => cursor' = initial.cursor /\ offset' = initial.offset
       /\ KeySearch \/ (InPrompt /\ arg = "Search")
            => UNCHANGED <<rows, undo_stack, redo_stack, dirty>>]_vars

\* A search of a modified document has jumped to a match away from the
\* saved cursor and the saved offset, with a non-empty undo stack.
C15_Witness ==
    /\ pc = "prompt" /\ arg = "Search"
    /\ cursor # initial.cursor /\ offset # initial.offset
    /\ dirty /\ undo_stack # <<>>
    /\ ~panicked

\* C16 (one event per edit, SpecHistory): every character, tab, return and
\* backspace handler that runs to its end leaves the undo stack exactly one
\* event longer than it found it.
C16_OneEventPerEdit ==
    [][(KeyChar \/ KeyBackspace) /\ ~panicked'
            => Len(undo_stack') = Len(undo_stack) + 1]_vars

RecordedBeforeEdit == {"InsertMid", "ReturnStart", "ReturnEnd", "ReturnMid"}

\* C18 (undo repositions, SpecMovedUndo): an undo of a character insertion or
\* of a return that runs to its end leaves cursor + offset at the position
\* the event recorded, which is the position the cursor had right before the
\* edit, wherever arrow and leap keys took the cursor in between.
C18_UndoRepositions ==
    [][(/\ KeyUndo /\ undo_stack # <<>> /\ ~panicked'
        /\ undo_stack[Len(undo_stack)].type \in RecordedBeforeEdit)
            => AbsPos(Self)' = undo_stack[Len(undo_stack)].pos]_vars

\* C19 (grapheme index, SpecView): whenever the editor waits for a key, the
\* grapheme index equals the number of graphemes of the current row that
\* end at or before the absolute column cursor.x + offset.x.
C19_GraphemeIndexMatchesColumn ==
    ~panicked /\ HasRow(Self, AbsY(Self))
        => graphemes =
             Cardinality({i \in 1..Len(CurRow(Self)) :
                            RowLength(SubSeq(CurRow(Self), 1, i)) <= AbsX(Self)})

\* C20 (search jump, SpecView): a key in the search prompt that is not
\* Escape or Return leaves cursor + offset where it was, or where it was when
\* the search began, or on a match of the buffer: a jump of goto_ahead or
\* goto_behind to the match at p ends with cursor + offset = p.
C20_JumpLandsOnMatch ==
    [][(PromptChar \/ PromptBackspace \/ PromptOther)
         /\ arg = "Search" /\ ~panicked'
            => \/ AbsPos(Self)' = AbsPos(Self)
               \/ AbsPos(Self)' = [x |-> initial.cursor.x + initial.offset.x,
                                   y |-> initial.cursor.y + initial.offset.y]
               \/ \E i \in 1..Len(scan(rows, result')) :
                     AbsPos(Self)' = scan(rows, result')[i]]_vars

\* C21 (prompt turn, SpecPrompt): after every key of the prompt but Return
\* and Escape, the command line reads "label: buffer" as Info, and the frame
\* printed last was rendered after that and after the key's own reaction:
\* it shows this command line and the rows at the offset the reaction left,
\* with the gutter width recalculated.
C21_PromptTurnRenders ==
    [][(PromptChar \/ PromptBackspace \/ PromptOther) /\ ~panicked'
            => /\ command_line' =
                    [msg |-> "Info", text |-> arg \o ": " \o Join(result')]
               /\ line_offset' = RecalculateOffset(rows')
               /\ frame' = render(Self)']_vars

\* A character typed in the search prompt made the search jump and scroll,
\* and the frame on the screen shows "Search: W" on its command line and the
\* document from the new offset.
C21_Witness ==
    /\ pc = "prompt" /\ arg = "Search" /\ result = <<"W">>
    /\ offset.y # initial.offset.y
    /\ frame[term.height] =
          [kind |-> "command_line", text |-> "Search: W", msg |-> "Info"]
    /\ frame[1] = [kind |-> "row", y |-> offset.y]
    /\ ~panicked

\* No line of frame f belongs to the welcome overlay.
NoWelcome(f) == \A i \in DOMAIN f : f[i].kind # "welcome_message"

\* C22 (welcome overlay, SpecWelcome): no step sets show_welcome back to
\* TRUE; every edit and every successful open leaves it FALSE; and a frame
\* rendered by a step that starts with show_welcome FALSE (a key handled by
\* the main loop, a resize, a turn of the prompt) has no welcome line.
C22_WelcomeClearedForGood ==
    [][/\ ~show_welcome => ~show_welcome'
       /\ KeyChar \/ KeyBackspace => ~show_welcome'
       /\ PromptReturnOpen /\ command_line'.text # "File couldn't be opened"
            => ~show_welcome'
       /\ (/\ ~show_welcome
           /\ \/ pc = "process_input" \/ Resize
              \/ PromptChar \/ PromptBackspace \/ PromptOther)
            => frame' # <<>> /\ NoWelcome(frame')]_vars

\* The first edit has just cleared show_welcome: the frame printed before
\* it still shows the overlay, and the next one will not.
C22_Witness ==
    /\ ~show_welcome
    /\ frame # <<>> /\ ~NoWelcome(frame)
    /\ dirty /\ undo_stack # <<>>
    /\ ~panicked

\* C23 (failures are reported, SpecFiles): a save, a save as or an open that
\* fails, and an Escape in the prompt of save as or open, each replace the
\* command line by a status message, leave the rows, the path, the dirty flag
\* and the quit flag as they were, and hand control back to the main loop.
C23_FailureReported ==
    [][/\ KeySave /\ dirty' = dirty /\ ~panicked'
            => \/ command_line'.msg = "Info"
               \/ /\ command_line' =
                        [msg |-> "Error", text |-> "Failed to save file to " \o path]
                  /\ UNCHANGED <<rows, path, dirty, quit>>
       /\ PromptReturnSaveAs /\ path' = path /\ dirty' = dirty
            => \/ command_line'.msg = "Info"
               \/ /\ command_line' =
                        [msg |-> "Error",
                         text |-> "Failed to save file to " \o Join(result)]
                  /\ UNCHANGED <<rows, path, dirty, quit>>
                  /\ pc' = "process_input"
       /\ PromptReturnOpen /\ rows' = rows /\ path' = path
            => \/ ~dirty' /\ ~show_welcome'
               \/ /\ command_line' =
                        [msg |-> "Error", text |-> "File couldn't be opened"]
                  /\ UNCHANGED <<rows, path, dirty, quit>>
                  /\ pc' = "process_input"
       /\ PromptEsc /\ arg \in {"Save as", "Open"}
            => /\ command_line' # command_line
               /\ command_line'.text # arg \o ": " \o Join(result)
               /\ UNCHANGED <<rows, path, dirty, quit>>
               /\ pc' = "process_input"]_vars

\* Frame f is laid out as render() lays out the editor t: one line per
\* terminal row, the command line last, the status line before it, and above
\* them a welcome row (only while show_welcome), the document row
\* offset.y + i where that row exists, the filler where it does not.
LayoutOf(f, t) ==
    /\ DOMAIN f = 1..t.term.height
    /\ \A i \in 1..t.term.height :
        LET row == i - 1
        IN IF row = t.term.height - 1
           THEN f[i] = [kind |-> "command_line", text |-> t.command_line.text,
                        msg |-> t.command_line.msg]
           ELSE IF row = t.term.height - 2
           THEN f[i].kind = "status_line"
           ELSE \/ f[i].kind = "welcome_message" /\ t.show_welcome
                \/ /\ f[i] = [kind |-> "row", y |-> t.offset.y + row]
                   /\ HasRow(t, t.offset.y + row)
                \/ f[i].kind = "~" /\ ~HasRow(t, t.offset.y + row)

\* C24 (frame layout, SpecFrames): the frame a resize prints is laid out on
\* the resized editor, and the frame printed before a key is handled is laid
\* out on the editor as the key found it, in terminals of height 2, 3, 4, 5
\* and 12, with and without the welcome overlay.
C24_FrameLayout ==
    [][/\ Resize \/ ResizeAny => LayoutOf(frame', Self')
       /\ KeyLeap \/ KeyChar => LayoutOf(frame', Self)]_vars

\* A terminal of 12 lines shows the welcome overlay over the new document:
\* row 0 of the document, fillers, the five welcome rows at lines 3, 4, 6, 7
\* and 8, the status line and the command line.
C24_Witness ==
    /\ term.height = 12 /\ show_welcome
    /\ Len(frame) = 12
    /\ frame[1] = [kind |-> "row", y |-> 0]
    /\ frame[2].kind = "~"
    /\ {i \in 1..12 : frame[i].kind = "welcome_message"} = {4, 5, 7, 8, 9}
    /\ frame[11].kind = "status_line"
    /\ frame[12].kind = "command_line"

\* C25 (no underflow, SpecMovedUndo): when undo inverts an InsertMid event,
\* or redo re-applies an InsertTab or InsertMid event, the recorded row is at
\* least offset.y and the column it computes from the recorded one is at
\* least offset.x, so neither subtraction underflows.
C25_RecordedNotBelowOffset ==
    [][/\ (KeyUndo /\ undo_stack # <<>>
             /\ undo_stack[Len(undo_stack)].type = "InsertMid")
            => LET e == undo_stack[Len(undo_stack)]
               IN e.pos.y >= offset.y /\ e.pos.x + Width(e.c) >= offset.x
       /\ (KeyRedo /\ redo_stack # <<>>
             /\ redo_stack[Len(redo_stack)].type = "InsertMid")
            => LET e == redo_stack[Len(redo_stack)]
               IN e.pos.y >= offset.y /\ e.pos.x + Width(e.c) >= offset.x
       /\ (KeyRedo /\ redo_stack # <<>>
             /\ redo_stack[Len(redo_stack)].type = "InsertTab")
            => LET e == redo_stack[Len(redo_stack)]
               IN e.pos.y >= offset.y /\ SatSub(e.pos.x, TAB_WIDTH) >= offset.x]_vars

\* The rows undo indexes to invert event e: pos.y, and pos.y + 1 as well for
\* the return events that took a second row (ReturnEnd, ReturnMid).
RowsOfInverse(e) ==
    IF e.type \in {"ReturnEnd", "ReturnMid"}
    THEN {e.pos.y, e.pos.y + 1}
    ELSE {e.pos.y}

\* C26 (top event invertible, SpecHistory): whenever the editor waits for a
\* key, the rows that undo indexes to invert the event on top of the undo
\* stack exist in the document.
C26_TopEventInvertible ==
    ~panicked /\ undo_stack # <<>>
        => \A y \in RowsOfInverse(undo_stack[Len(undo_stack)]) : HasRow(Self, y)

\* C27 (a document has a row, SpecRedone): the document has at least one
\* row in every state, the state in which a handler aborts included.
C27_DocumentHasRow ==
    Len(rows) >= 1

\* C28 (backspace at the origin, SpecRedone): Backspace pressed with the
\* cursor at absolute position (row 0, column 0) leaves the rows of the
\* document and the absolute cursor position as they were.
C28_BackspaceAtOriginIdle ==
    [][(KeyBackspace /\ AbsX(Self) = 0 /\ AbsY(Self) = 0)
          => (rows' = rows /\ AbsPos(Self)' = AbsPos(Self))]_vars

====
